---- MODULE Spec2Model ----
(***************************************************************************)
(* Model of the copy-on-write B+Tree node layer of go-database             *)
(* (src/btree.go): node codec, node builders, lookup and the split engine. *)
(*                                                                         *)
(* A BNode ([]byte) is modelled as a record                                *)
(*    [len, w, d]                                                          *)
(* len : length of the slice in bytes,                                     *)
(* w   : the little-endian integer fields written into it, keyed by the    *)
(*       byte position they start at (a position that is absent reads 0,   *)
(*       as a zeroed buffer does),                                         *)
(* d   : the byte runs copied into it, keyed by start position.  A byte    *)
(*       string is [b, len]: the byte b repeated len times.                *)
(* All positions are computed exactly as the code computes them, in        *)
(* 16-bit unsigned arithmetic.                                             *)
(***************************************************************************)
EXTENDS Integers, Sequences, FiniteSets, TLC

HEADER == 4
BTREE_PAGE_SIZE == 4096
BTREE_MAX_KEY_SIZE == 1000
BTREE_MAX_VAL_SIZE == 3000
BNODE_NODE == 1
BNODE_LEAF == 2

\* uint16 wrap-around
U16 == 65536

\* nodeSplit3 returns at most [3]BNode, which are the kids of nodeReplaceKidN
MaxKids == 3

\* bounds of the explored inputs
MaxKeys == 3
NumByteVals == 2

VARIABLES heap, pages, calls, pc, args, ret, panic

vars == <<heap, pages, calls, pc, args, ret, panic>>

----------------------------------------------------------------------------
(* byte strings *)

Empty == [b |-> 0, len |-> 0]

Bytes(b, n) == IF n = 0 THEN Empty ELSE [b |-> b, len |-> n]

\* bytes.Compare on strings of one repeated byte: lexicographic order
bytesCompare(a, b) ==
    IF a.len = 0 \/ b.len = 0 \/ a.b = b.b
    THEN (IF a.len < b.len THEN -1 ELSE IF a.len > b.len THEN 1 ELSE 0)
    ELSE (IF a.b < b.b THEN -1 ELSE 1)

----------------------------------------------------------------------------
(* raw buffer access *)

\* make([]byte, n): a zeroed buffer
make(n) == [len |-> n, w |-> <<>>, d |-> <<>>]

\* binary.LittleEndian.Uint16 / Uint64 (node[pos:])
getUint(node, pos) == IF pos \in DOMAIN node.w THEN node.w[pos] ELSE 0

\* binary.LittleEndian.PutUint16 / PutUint64 (node[pos:], v)
putUint(node, pos, v) ==
    [node EXCEPT !.w = IF v = 0
                       THEN [p \in (DOMAIN @) \ {pos} |-> @[p]]
                       ELSE (pos :> v) @@ @]

\* copy(node[pos:], src)
copyBytes(node, pos, src) ==
    IF src.len = 0 THEN node
    ELSE [node EXCEPT !.d = (pos :> src) @@ @]

\* node[pos:][:n]
sliceBytes(node, pos, n) ==
    IF n = 0 THEN Empty
    ELSE IF pos \in DOMAIN node.d THEN [b |-> node.d[pos].b, len |-> n]
    ELSE [b |-> 0, len |-> n]

----------------------------------------------------------------------------
(* node codec *)

btype(node) == getUint(node, 0)

nkeys(node) == getUint(node, 2)

setHeader(node, bt, nk) == putUint(putUint(node, 0, bt), 2, nk)

getPtr(node, idx) == getUint(node, (HEADER + 8 * idx) % U16)

setPtr(node, idx, val) == putUint(node, (HEADER + 8 * idx) % U16, val)

offsetPos(node, idx) == (HEADER + 8 * nkeys(node) + 2 * (idx - 1)) % U16

getOffset(node, idx) ==
    IF idx = 0 THEN 0 ELSE getUint(node, offsetPos(node, idx))

setOffset(node, idx, offset) == putUint(node, offsetPos(node, idx), offset)

\* kvPos with the pointer area left out of a leaf
kvPos_leafNoPtrs(node, idx) ==
    IF btype(node) = BNODE_LEAF
    THEN (HEADER + 2 * nkeys(node) + getOffset(node, idx)) % U16
    ELSE (HEADER + 8 * nkeys(node) + 2 * nkeys(node)
            + getOffset(node, idx)) % U16

kvPos(node, idx) ==
    (HEADER + 8 * nkeys(node) + 2 * nkeys(node) + getOffset(node, idx)) % U16

getKey(node, idx) ==
    LET pos  == kvPos(node, idx)
        klen == getUint(node, pos)
    IN  sliceBytes(node, (pos + 4) % U16, klen)

getVal(node, idx) ==
    LET pos  == kvPos(node, idx)
        klen == getUint(node, pos)
        vlen == getUint(node, (pos + 2) % U16)
    IN  sliceBytes(node, (pos + 4 + klen) % U16, vlen)

nbytes(node) == kvPos(node, nkeys(node))

----------------------------------------------------------------------------
(* lookup *)

RECURSIVE lookupLoop_strictLess(_, _, _, _)
\* the loop with found updated on cmp < 0 only
lookupLoop_strictLess(node, key, i, found) ==
    IF i < nkeys(node)
    THEN LET cmp == bytesCompare(getKey(node, i), key)
             f   == IF cmp < 0 THEN i ELSE found
         IN  IF cmp >= 0 THEN f
             ELSE lookupLoop_strictLess(node, key, (i + 1) % U16, f)
    ELSE found

RECURSIVE lookupLoop(_, _, _, _)
\* the for loop of nodeLookupLE, from index i with the current found
lookupLoop(node, key, i, found) ==
    IF i < nkeys(node)
    THEN LET cmp == bytesCompare(getKey(node, i), key)
             f   == IF cmp <= 0 THEN i ELSE found
         IN  IF cmp >= 0 THEN f
             ELSE lookupLoop(node, key, (i + 1) % U16, f)
    ELSE found

nodeLookupLE(node, key) == lookupLoop(node, key, 1, 0)

----------------------------------------------------------------------------
(* node builders; h is the memory: a sequence of buffers, a BNode argument
   is an index into it *)

\* nodeAppendKV advancing the next offset by the key and value bytes only
nodeAppendKV_offsetNoLengths(new, idx, ptr, key, val) ==
    LET n1  == setPtr(new, idx, ptr)
        pos == kvPos(n1, idx)
        n2  == putUint(n1, pos, key.len % U16)
        n3  == putUint(n2, (pos + 2) % U16, val.len % U16)
        n4  == copyBytes(n3, (pos + 4) % U16, key)
        n5  == copyBytes(n4, (pos + 4 + key.len) % U16, val)
    IN  setOffset(n5, (idx + 1) % U16,
                  (getOffset(n5, idx) + (key.len + val.len)) % U16)

nodeAppendKV(new, idx, ptr, key, val) ==
    LET n1  == setPtr(new, idx, ptr)
        pos == kvPos(n1, idx)
        n2  == putUint(n1, pos, key.len % U16)
        n3  == putUint(n2, (pos + 2) % U16, val.len % U16)
        n4  == copyBytes(n3, (pos + 4) % U16, key)
        n5  == copyBytes(n4, (pos + 4 + key.len) % U16, val)
    IN  setOffset(n5, (idx + 1) % U16,
                  (getOffset(n5, idx) + 4 + (key.len + val.len)) % U16)

RECURSIVE nodeAppendRange(_, _, _, _, _, _)
nodeAppendRange(h, new, old, dstNew, srcOld, n) ==
    IF n = 0 THEN h
    ELSE nodeAppendRange(
           [h EXCEPT ![new] = nodeAppendKV(@, dstNew, getPtr(h[old], srcOld),
                                           getKey(h[old], srcOld),
                                           getVal(h[old], srcOld))],
           new, old, (dstNew + 1) % U16, (srcOld + 1) % U16, n - 1)

\* leafInsert copying the tail of old from idx+1
leafInsert_tailFromNext(h, new, old, idx, key, val) ==
    LET h1 == [h EXCEPT ![new] =
                 setHeader(@, BNODE_LEAF, (nkeys(h[old]) + 1) % U16)]
        h2 == nodeAppendRange(h1, new, old, 0, 0, idx)
        h3 == [h2 EXCEPT ![new] = nodeAppendKV(@, idx, 0, key, val)]
    IN  nodeAppendRange(h3, new, old, (idx + 1) % U16, (idx + 1) % U16,
                        (nkeys(h3[old]) - idx) % U16)

leafInsert(h, new, old, idx, key, val) ==
    LET h1 == [h EXCEPT ![new] =
                 setHeader(@, BNODE_LEAF, (nkeys(h[old]) + 1) % U16)]
        h2 == nodeAppendRange(h1, new, old, 0, 0, idx)
        h3 == [h2 EXCEPT ![new] = nodeAppendKV(@, idx, 0, key, val)]
    IN  nodeAppendRange(h3, new, old, (idx + 1) % U16, idx,
                        (nkeys(h3[old]) - idx) % U16)

\* tree.new(node): the page store keeps a copy of the bytes under a fresh id
treeNew(st, node) ==
    [st EXCEPT !.pages = Append(@, st.heap[node]),
               !.calls = Append(@, [fn |-> "new", id |-> Len(st.pages) + 1])]

RECURSIVE kidsLoop(_, _, _, _, _)
\* the range loop of nodeReplaceKidN, from kid i (1-based in kids)
kidsLoop(st, new, idx, kids, i) ==
    IF i > Len(kids) THEN st
    ELSE LET s1  == treeNew(st, kids[i])
             ptr == s1.calls[Len(s1.calls)].id
             s2  == [s1 EXCEPT !.heap[new] =
                       nodeAppendKV(@, (idx + (i - 1)) % U16, ptr,
                                    getKey(s1.heap[kids[i]], 0), Empty)]
         IN  kidsLoop(s2, new, idx, kids, i + 1)

\* nodeReplaceKidN with the key count one too high
nodeReplaceKidN_countPlusInc(st, new, old, idx, kids) ==
    LET inc == Len(kids) % U16
        s1  == [st EXCEPT !.heap[new] =
                  setHeader(@, BNODE_NODE,
                            (nkeys(st.heap[old]) + inc) % U16)]
        s2  == [s1 EXCEPT !.heap = nodeAppendRange(@, new, old, 0, 0, idx)]
        s3  == kidsLoop(s2, new, idx, kids, 1)
    IN  [s3 EXCEPT !.heap =
           nodeAppendRange(@, new, old, (idx + inc) % U16, (idx + 1) % U16,
                           (nkeys(st.heap[old]) - (idx + 1)) % U16)]

\* nodeReplaceKidN setting the header of the old node
nodeReplaceKidN_headerOnOld(st, new, old, idx, kids) ==
    LET inc == Len(kids) % U16
        n   == nkeys(st.heap[old])
        s0  == [st EXCEPT !.heap[new] =
                  setHeader(@, BNODE_NODE, (n + inc - 1) % U16)]
        s1  == [s0 EXCEPT !.heap[old] =
                  setHeader(@, BNODE_NODE, (n + inc - 1) % U16)]
        s2  == [s1 EXCEPT !.heap = nodeAppendRange(@, new, old, 0, 0, idx)]
        s3  == kidsLoop(s2, new, idx, kids, 1)
    IN  [s3 EXCEPT !.heap =
           nodeAppendRange(@, new, old, (idx + inc) % U16, (idx + 1) % U16,
                           (n - (idx + 1)) % U16)]

nodeReplaceKidN(st, new, old, idx, kids) ==
    LET inc == Len(kids) % U16
        s1  == [st EXCEPT !.heap[new] =
                  setHeader(@, BNODE_NODE,
                            (nkeys(st.heap[old]) + inc - 1) % U16)]
        s2  == [s1 EXCEPT !.heap = nodeAppendRange(@, new, old, 0, 0, idx)]
        s3  == kidsLoop(s2, new, idx, kids, 1)
    IN  [s3 EXCEPT !.heap =
           nodeAppendRange(@, new, old, (idx + inc) % U16, (idx + 1) % U16,
                           (nkeys(s3.heap[old]) - (idx + 1)) % U16)]

----------------------------------------------------------------------------
(* split engine *)

\* the body of nodeSplit2 is empty: left and right stay as allocated
nodeSplit2(h, left, right, old) == h

\* a nil BNode of the returned [3]BNode
Nil == make(0)

nodeSplit3(old) ==
    IF nbytes(old) <= BTREE_PAGE_SIZE
    THEN [n |-> 1,
          parts |-> <<[old EXCEPT !.len = BTREE_PAGE_SIZE], Nil, Nil>>,
          ok |-> TRUE]
    ELSE LET h0 == <<old, make(2 * BTREE_PAGE_SIZE), make(BTREE_PAGE_SIZE)>>
             h1 == nodeSplit2(h0, 2, 3, 1)
         IN  IF nbytes(h1[2]) <= BTREE_PAGE_SIZE
             THEN [n |-> 2,
                   parts |-> <<[h1[2] EXCEPT !.len = BTREE_PAGE_SIZE],
                               h1[3], Nil>>,
                   ok |-> TRUE]
             ELSE LET h2 == h1 \o <<make(BTREE_PAGE_SIZE),
                                    make(BTREE_PAGE_SIZE)>>
                      h3 == nodeSplit2(h2, 4, 5, 2)
                  IN  [n |-> 3,
                       parts |-> <<h3[4], h3[5], h3[3]>>,
                       ok |-> nbytes(h3[4]) <= BTREE_PAGE_SIZE]

\* the bound with the 8 bytes of the pointer left out
node1max_noPtr == HEADER + 2 + 4 + BTREE_MAX_KEY_SIZE + BTREE_MAX_VAL_SIZE

\* init(): the startup assertion
node1max == HEADER + 8 + 2 + 4 + BTREE_MAX_KEY_SIZE + BTREE_MAX_VAL_SIZE

----------------------------------------------------------------------------
(* the inputs explored *)

Keys == {Empty} \cup
        {Bytes(b, n) : b \in 1..NumByteVals, n \in {1, BTREE_MAX_KEY_SIZE}}

Vals == {Bytes(1, n) : n \in {0, BTREE_MAX_VAL_SIZE}}

\* the records a node of the given kind can hold: a leaf entry carries a
\* value and pointer 0, an internal entry a child page id and no value
RecsOf(kind) ==
    IF kind = BNODE_LEAF
    THEN {[ptr |-> 0, key |-> k, val |-> v] : k \in Keys, v \in Vals}
    ELSE {[ptr |-> 100 + 2 * k.b + k.len, key |-> k, val |-> Empty] : k \in Keys}

StrictlyIncreasing(recs) ==
    \A i \in 1..(Len(recs) - 1) :
        bytesCompare(recs[i].key, recs[i + 1].key) < 0

RECURSIVE appendAll(_, _, _)
\* appends recs[i..] one by one with nodeAppendKV
appendAll(node, recs, i) ==
    IF i > Len(recs) THEN node
    ELSE appendAll(nodeAppendKV(node, i - 1, recs[i].ptr, recs[i].key,
                                recs[i].val), recs, i + 1)

\* a page holding the given records, built the way the builders build it
MkNode(kind, recs) ==
    appendAll(setHeader(make(BTREE_PAGE_SIZE), kind, Len(recs)), recs, 1)

\* the nodes a tree can hold: keys strictly increasing, within one page
NodeRecSeqs(kind) ==
    {recs \in UNION {[1..n -> RecsOf(kind)] : n \in 0..MaxKeys} :
        /\ StrictlyIncreasing(recs)
        /\ nbytes(MkNode(kind, recs)) <= BTREE_PAGE_SIZE}

\* replacement children: pages with at least one key
KidRecSeqs == {<<[ptr |-> 0, key |-> k, val |-> Empty]>> : k \in Keys}

\* the kids of one call are the parts of one split, in key order
KidLists ==
    {kids \in UNION {[1..k -> KidRecSeqs] : k \in 1..MaxKids} :
        \A j \in 1..(Len(kids) - 1) :
            bytesCompare(kids[j][1].key, kids[j + 1][1].key) < 0}

\* the records decoded from a node
Records(node) ==
    [i \in 1..nkeys(node) |->
        [ptr |-> getPtr(node, i - 1),
         key |-> getKey(node, i - 1),
         val |-> getVal(node, i - 1)]]

\* positions of the arguments in the memory
old == 1
new == 2
kid(j) == 2 + j

----------------------------------------------------------------------------
(* the state machine: the package is loaded (init), then one operation is
   applied to a node, and the split engine is applied to what was built *)

Init ==
    \E kind \in {BNODE_NODE, BNODE_LEAF} :
      \E recs \in NodeRecSeqs(kind) :
        /\ heap = <<MkNode(kind, recs), make(2 * BTREE_PAGE_SIZE)>>
        /\ pages = <<MkNode(kind, recs)>>
        /\ calls = <<>>
        /\ pc = "load"
        /\ args = [op |-> "none", kind |-> kind, old |-> recs,
                   oldbuf |-> MkNode(kind, recs),
                   idx |-> 0, key |-> Empty, val |-> Empty, kids |-> <<>>]
        /\ ret = [n |-> 0, parts |-> <<>>, ok |-> TRUE]
        /\ panic = FALSE

init ==
    /\ pc = "load"
    /\ panic' = ~(node1max <= BTREE_PAGE_SIZE)
    /\ pc' = IF node1max <= BTREE_PAGE_SIZE THEN "ready" ELSE "panic"
    /\ UNCHANGED <<heap, pages, calls, args, ret>>

LookupLE ==
    /\ pc = "ready"
    /\ \E key \in Keys :
        /\ ret' = [ret EXCEPT !.n = nodeLookupLE(heap[old], key)]
        /\ args' = [args EXCEPT !.op = "nodeLookupLE", !.key = key]
    /\ pc' = "done"
    /\ UNCHANGED <<heap, pages, calls, panic>>

LeafInsert ==
    /\ pc = "ready"
    /\ btype(heap[old]) = BNODE_LEAF
    /\ \E idx \in 0..nkeys(heap[old]), key \in Keys, val \in Vals :
        /\ heap' = leafInsert(heap, new, old, idx, key, val)
        /\ args' = [args EXCEPT !.op = "leafInsert", !.idx = idx,
                                !.key = key, !.val = val]
    /\ pc' = "done"
    /\ UNCHANGED <<pages, calls, ret, panic>>

ReplaceKidN ==
    /\ pc = "ready"
    /\ btype(heap[old]) = BNODE_NODE
    /\ \E idx \in 0..(nkeys(heap[old]) - 1), kids \in KidLists :
        LET h0 == heap \o [j \in 1..Len(kids) |-> MkNode(BNODE_LEAF, kids[j])]
            st == nodeReplaceKidN(
                    [heap |-> h0, pages |-> pages, calls |-> calls],
                    new, old, idx, [j \in 1..Len(kids) |-> kid(j)])
        IN  /\ heap' = st.heap
            /\ pages' = st.pages
            /\ calls' = st.calls
            /\ args' = [args EXCEPT !.op = "nodeReplaceKidN", !.idx = idx,
                                    !.kids = kids]
    /\ pc' = "done"
    /\ UNCHANGED <<ret, panic>>

Split3 ==
    /\ pc = "done"
    /\ args.op \in {"leafInsert", "nodeReplaceKidN"}
    /\ LET r == nodeSplit3(heap[new])
       IN  /\ ret' = r
           /\ panic' = ~r.ok
    /\ pc' = "split"
    /\ UNCHANGED <<heap, pages, calls, args>>

Next == init \/ LookupLE \/ LeafInsert \/ ReplaceKidN \/ Split3

Spec == Init /\ [][Next]_vars

----------------------------------------------------------------------------
(* what the properties are stated over *)

Built == pc \in {"done", "split"} /\ args.op \in {"leafInsert", "nodeReplaceKidN"}

RECURSIVE RecBytes(_)
\* bytes taken by the records: 4 + key length + value length each
RecBytes(recs) ==
    IF recs = <<>> THEN 0
    ELSE 4 + Head(recs).key.len + Head(recs).val.len + RecBytes(Tail(recs))

\* the routing entries nodeReplaceKidN is to write for the kids
Routing ==
    [j \in 1..Len(args.kids) |->
        [ptr |-> calls[j].id, key |-> args.kids[j][1].key, val |-> Empty]]

\* the record sequence the built node is to hold
Expected ==
    LET n == Len(args.old)
    IN  IF args.op = "leafInsert"
        THEN SubSeq(args.old, 1, args.idx)
               \o <<[ptr |-> 0, key |-> args.key, val |-> args.val]>>
               \o SubSeq(args.old, args.idx + 1, n)
        ELSE SubSeq(args.old, 1, args.idx) \o Routing
               \o SubSeq(args.old, args.idx + 2, n)

RECURSIVE Concat(_, _)
\* the records of parts[1..n], in order
Concat(parts, n) ==
    IF n = 0 THEN <<>> ELSE Concat(parts, n - 1) \o Records(parts[n])

Max(S) == CHOOSE m \in S : \A x \in S : x <= m

----------------------------------------------------------------------------
\* C1: every part returned by nodeSplit3 has encoded size <= page size and
\* holds at least one key (no part is empty, none exceeds the page bound).
C1_PartsBoundedNonEmpty ==
    pc = "split" =>
        \A j \in 1..ret.n :
            /\ nbytes(ret.parts[j]) <= BTREE_PAGE_SIZE
            /\ nkeys(ret.parts[j]) >= 1

\* C2: the records of the parts returned by nodeSplit3, concatenated in
\* order, are exactly the input's records, every part has the input's kind,
\* and an input within the page size is returned itself as the single part.
C2_SplitPreservesRecords ==
    pc = "split" =>
        /\ Concat(ret.parts, ret.n) = Records(heap[new])
        /\ \A j \in 1..ret.n : btype(ret.parts[j]) = btype(heap[new])
        /\ nbytes(heap[new]) <= BTREE_PAGE_SIZE =>
              /\ ret.n = 1
              /\ ret.parts[1] = [heap[new] EXCEPT !.len = BTREE_PAGE_SIZE]

\* C3: on a node with strictly increasing keys nodeLookupLE returns the
\* greatest index i >= 1 with key[i] <= target, or 0 when there is none,
\* and the result is below max(1, key count).
C3_LookupGreatestLE ==
    (pc = "done" /\ args.op = "nodeLookupLE") =>
        LET n == Len(args.old)
            S == {i \in 1..(n - 1) :
                    bytesCompare(args.old[i + 1].key, args.key) <= 0}
        IN  /\ ret.n = IF S = {} THEN 0 ELSE Max(S)
            /\ ret.n < (IF n > 1 THEN n ELSE 1)

C3_Witness ==
    /\ pc = "done" /\ args.op = "nodeLookupLE"
    /\ Len(args.old) = 3 /\ ret.n = 1
    /\ bytesCompare(args.old[2].key, args.key) < 0

\* C4: leafInsert builds a leaf of n+1 keys holding old[0:idx), the new
\* (key, value) record at idx, then old[idx:n), each record with its key
\* and value bytes.
C4_LeafInsertRecords ==
    (Built /\ args.op = "leafInsert") =>
        /\ btype(heap[new]) = BNODE_LEAF
        /\ nkeys(heap[new]) = Len(args.old) + 1
        /\ Records(heap[new]) = Expected

C4_Witness ==
    /\ pc = "done" /\ args.op = "leafInsert"
    /\ 0 < args.idx /\ args.idx < Len(args.old)
    /\ args.key.len > 0 /\ args.val.len > 0

\* C5: nodeReplaceKidN builds an internal node of n+k-1 keys holding
\* old[0:idx), one routing entry per kid (pointer = the id allocating the
\* kid returned, key = the kid's first key, empty value), then
\* old[idx+1:n); allocate is called once per kid, in kid order.
C5_ReplaceKidRecords ==
    (Built /\ args.op = "nodeReplaceKidN") =>
        LET k == Len(args.kids)
        IN  /\ btype(heap[new]) = BNODE_NODE
            /\ nkeys(heap[new]) = Len(args.old) + k - 1
            /\ Len(calls) = k
            /\ Len(pages) = 1 + k
            /\ \A j \in 1..k :
                  /\ calls[j].fn = "new"
                  /\ calls[j].id = 1 + j
                  /\ pages[calls[j].id] = MkNode(BNODE_LEAF, args.kids[j])
            /\ Records(heap[new]) = Expected

C5_Witness ==
    /\ pc = "done" /\ args.op = "nodeReplaceKidN"
    /\ Len(args.kids) = 3 /\ Len(args.old) = 3 /\ args.idx = 1
    /\ args.kids[1] # args.kids[2] /\ args.kids[2] # args.kids[3]

\* the nodes in memory whose records are known: the old node always, the
\* new node once a builder has filled it
Known == {[node |-> heap[old], recs |-> args.old]} \cup
         (IF Built THEN {[node |-> heap[new], recs |-> Expected]} ELSE {})

\* the encoded size of a node holding recs, pointer area included
Size(recs) == HEADER + 8 * Len(recs) + 2 * Len(recs) + RecBytes(recs)

C7_UpdateKeepsKeyCount ==
    (Built /\ args.op = "leafInsert" /\ args.idx < Len(args.old)
           /\ args.old[args.idx + 1].key = args.key) =>
        LET recs == Records(heap[new])
        IN  /\ nkeys(heap[new]) = Len(args.old)
            /\ recs = SubSeq(args.old, 1, args.idx)
                        \o <<[ptr |-> 0, key |-> args.key, val |-> args.val]>>
                        \o SubSeq(args.old, args.idx + 2, Len(args.old))
            /\ \A i, j \in 1..Len(recs) : recs[i].key = recs[j].key => i = j

\* C8: a node holding one record of maximum key and value size has encoded
\* size 4 + 8 + 2 + 4 + 1000 + 3000, the bound init asserts to be within
\* the page size, and the assertion passes.
C8_OneMaxRecordFits ==
    /\ pc # "load" => pc # "panic"
    /\ \A x \in Known :
          (/\ Len(x.recs) = 1
           /\ x.recs[1].key.len = BTREE_MAX_KEY_SIZE
           /\ x.recs[1].val.len = BTREE_MAX_VAL_SIZE) =>
              /\ nbytes(x.node) = node1max
              /\ nbytes(x.node) <= BTREE_PAGE_SIZE

C8_Witness ==
    /\ pc = "done" /\ args.op = "leafInsert" /\ ~panic
    /\ Len(args.old) = 0
    /\ args.key.len = BTREE_MAX_KEY_SIZE /\ args.val.len = BTREE_MAX_VAL_SIZE
    /\ nbytes(heap[new]) = 4018

\* C9: leafInsert and nodeReplaceKidN write into the new buffer only: the
\* old node and the kids keep their bytes, the pages already in the store
\* keep theirs, and the store is only asked to allocate.
C9_BuildersWriteNewOnly ==
    Built =>
        /\ heap[old] = args.oldbuf
        /\ Len(heap) = 2 + Len(args.kids)
        /\ \A j \in 1..Len(args.kids) :
              heap[kid(j)] = MkNode(BNODE_LEAF, args.kids[j])
        /\ pages[1] = args.oldbuf
        /\ \A c \in 1..Len(calls) : calls[c].fn = "new"

C9_Witness ==
    /\ pc = "done" /\ args.op = "nodeReplaceKidN"
    /\ Len(args.old) >= 2 /\ Len(args.kids) = 2
    /\ Len(pages) = 3
    /\ heap[new] # make(2 * BTREE_PAGE_SIZE)

\* C10: the node built by leafInsert or nodeReplaceKidN from an old node
\* within one page has encoded size <= 2 * page size, and every position
\* kvPos computes in it is the true byte position (no 16-bit wrap).
C10_BuiltFitsTwoPages ==
    Built =>
        /\ Size(Expected) <= 2 * BTREE_PAGE_SIZE
        /\ nbytes(heap[new]) <= heap[new].len
        /\ \A i \in 0..Len(Expected) :
              kvPos(heap[new], i) =
                 HEADER + 8 * Len(Expected) + 2 * Len(Expected)
                    + RecBytes(SubSeq(Expected, 1, i))

C10_Witness ==
    /\ pc = "done" /\ args.op = "leafInsert"
    /\ nbytes(args.oldbuf) > BTREE_PAGE_SIZE - 100
    /\ nbytes(heap[new]) > 2 * BTREE_PAGE_SIZE - 200

====
